---- MODULE Spec2Model ----
(***************************************************************************)
(* Model of the document validator of Startup-Analysis                     *)
(* (src/server/app/core/file_validator.py) and of the request handlers     *)
(* that call it (src/server/app/api/startup_routes.py) and analyse what    *)
(* they stored (src/server/app/api/analysis_routes.py).                    *)
(*                                                                         *)
(* Texts and file names are TLA+ strings; lower-casing, normalisation,     *)
(* whitespace splitting, substring search, the regular expression of the   *)
(* cross-file check and pathlib's suffix are computed character by         *)
(* character, as Python computes them.                                     *)
(*                                                                         *)
(* Six specifications:                                                     *)
(*   Spec         one call of validate_files on a batch of uploads         *)
(*   SpecFaults   the same, with one step of the call raising              *)
(*   SpecAnalyze  _analyze_file_content applied to texts that grow by one  *)
(*                fragment at a time, for a fixed normalised name          *)
(*   SpecCalls    threads inside validate_files at once                    *)
(*   SpecRoutes   submit, add-files and delete requests on one event loop  *)
(*   SpecSubmissions  submissions under like names, failing saves, and     *)
(*                analyze requests on what was stored                      *)
(***************************************************************************)
EXTENDS Integers, Sequences, FiniteSets, TLC

(***************************************************************************)
(* Python string primitives                                                *)
(***************************************************************************)
Uppercase == "ABCDEFGHIJKLMNOPQRSTUVWXYZ"
Lowercase == "abcdefghijklmnopqrstuvwxyz"
Digits == "0123456789"
Whitespace == " \n\t\r"

Char(s, i) == SubSeq(s, i, i)

\* c in s, for a one-character string c
CharIn(c, s) == \E i \in 1..Len(s) : Char(s, i) = c

\* `sub in s` of Python: sub occurs as a contiguous substring of s
Contains(sub, s) ==
    \E i \in 0..(Len(s) - Len(sub)) : SubSeq(s, i + 1, i + Len(sub)) = sub

\* s.endswith(suffix)
EndsWith(s, suffix) ==
    /\ Len(suffix) <= Len(s)
    /\ SubSeq(s, Len(s) - Len(suffix) + 1, Len(s)) = suffix

LowerChar(c) ==
    IF CharIn(c, Uppercase)
    THEN Char(Lowercase, CHOOSE i \in 1..Len(Uppercase) : Char(Uppercase, i) = c)
    ELSE c

RECURSIVE Lower(_)
\* str.lower()
Lower(s) == IF s = "" THEN "" ELSE LowerChar(Head(s)) \o Lower(Tail(s))

IsSpace(c) == CharIn(c, Whitespace)
IsAlnum(c) == CharIn(c, Uppercase) \/ CharIn(c, Lowercase) \/ CharIn(c, Digits)
\* \w of Python's re
IsWordChar(c) == IsAlnum(c) \/ c = "_"

RECURSIVE LStrip(_)
LStrip(s) == IF s # "" /\ IsSpace(Head(s)) THEN LStrip(Tail(s)) ELSE s

RECURSIVE RStrip(_)
RStrip(s) ==
    IF s # "" /\ IsSpace(Char(s, Len(s)))
    THEN RStrip(SubSeq(s, 1, Len(s) - 1))
    ELSE s

\* str.strip()
Strip(s) == RStrip(LStrip(s))

RECURSIVE SplitAcc(_, _, _)
SplitAcc(s, cur, acc) ==
    IF s = ""
    THEN IF cur = "" THEN acc ELSE Append(acc, cur)
    ELSE IF IsSpace(Head(s))
         THEN SplitAcc(Tail(s), "", IF cur = "" THEN acc ELSE Append(acc, cur))
         ELSE SplitAcc(Tail(s), cur \o Head(s), acc)

\* str.split(): the maximal runs of non-whitespace characters, in order
Split(s) == SplitAcc(s, "", <<>>)

RECURSIVE WordsAcc(_, _, _)
WordsAcc(s, cur, acc) ==
    IF s = ""
    THEN IF cur = "" THEN acc ELSE acc \cup {cur}
    ELSE IF IsWordChar(Head(s))
         THEN WordsAcc(Tail(s), cur \o Head(s), acc)
         ELSE WordsAcc(Tail(s), "", IF cur = "" THEN acc ELSE acc \cup {cur})

\* the maximal runs of \w characters of s
Words(s) == WordsAcc(s, "", {})

RECURSIVE Join(_, _)
\* sep.join(seq)
Join(seq, sep) ==
    IF seq = <<>> THEN ""
    ELSE IF Len(seq) = 1 THEN seq[1]
    ELSE seq[1] \o sep \o Join(Tail(seq), sep)

Range(seq) == {seq[i] : i \in 1..Len(seq)}


(***************************************************************************)
(* FileValidator.__init__: the process-wide constants                      *)
(***************************************************************************)
\* the categories of financial_keywords, in dict insertion order
Categories ==
    << "balance_sheet", "income_statement", "cash_flow", "cap_table",
       "financial_projections", "general_financial" >>

financial_keywords ==
    [ balance_sheet |->
        << "assets", "liabilities", "equity", "balance sheet", "current assets",
           "fixed assets", "accounts payable", "accounts receivable", "inventory",
           "cash", "retained earnings", "shareholder equity", "working capital" >>,
      income_statement |->
        << "revenue", "income", "expenses", "profit", "loss", "ebitda", "ebit",
           "gross profit", "net income", "operating expenses", "cost of goods sold",
           "depreciation", "amortization", "interest expense", "tax expense" >>,
      cash_flow |->
        << "cash flow", "operating cash flow", "investing cash flow",
           "financing cash flow", "cash receipts", "cash payments",
           "net cash flow", "beginning cash", "ending cash" >>,
      cap_table |->
        << "shares", "ownership", "equity", "stockholders", "shareholders",
           "common stock", "preferred stock", "options", "warrants",
           "dilution", "valuation", "share price", "capitalization table",
           "voting rights", "liquidation preference" >>,
      financial_projections |->
        << "forecast", "projection", "budget", "plan", "targets",
           "assumptions", "growth rate", "market size", "projections" >>,
      general_financial |->
        << "financial", "money", "dollar", "currency", "investment",
           "funding", "capital", "valuation", "metrics", "kpi",
           "performance", "analysis", "report", "statement" >> ]

company_keywords ==
    << "company", "corporation", "inc", "llc", "ltd", "startup",
       "business", "enterprise", "firm", "organization", "venture" >>

non_financial_keywords ==
    << "recipe", "cooking", "personal", "diary", "vacation", "travel",
       "photo", "image", "music", "video", "game", "entertainment",
       "social media", "facebook", "instagram", "twitter", "personal note",
       "shopping list", "grocery", "family", "wedding", "birthday" >>

allowed_extensions == { ".pdf", ".docx", ".doc", ".xlsx", ".xls", ".csv", ".txt" }

min_financial_score == 3

\* 0.7, kept as a ratio of integers: scores are ratios of two small counts
min_startup_consistency_score == [num |-> 7, den |-> 10]

\* the literal of `red_flag_count > 2`
red_flag_limit == 2

\* the literal of `len(word) > 2`
min_word_length == 2

\* variant of min_files_for_cross_check: the check also runs on one file
min_files_for_cross_check_One == 2 - 1

\* the literal of `len(file_contents) < 2`
min_files_for_cross_check == 2

\* the literal of `len(unique_references) > 5`
max_unique_references == 5

\* a <= b for ratios with positive denominators
RatioLeq(a, b) == a.num * b.den <= b.num * a.den

(***************************************************************************)
(* FileValidator._normalize_text                                           *)
(***************************************************************************)
RECURSIVE KeepAlnumSpace(_)
\* re.sub(r'[^a-zA-Z0-9\s]', '', s)
KeepAlnumSpace(s) ==
    IF s = "" THEN ""
    ELSE (IF IsAlnum(Head(s)) \/ IsSpace(Head(s)) THEN Head(s) ELSE "")
         \o KeepAlnumSpace(Tail(s))

_normalize_text(text) ==
    IF text = "" THEN "" ELSE Strip(KeepAlnumSpace(Lower(text)))

(***************************************************************************)
(* FileValidator._analyze_file_content                                     *)
(***************************************************************************)
\* the float 0.0
Zero == [num |-> 0, den |-> 1]

\* the keywords of the red-flag loop that occur in the text, in list order
RedFlags(content_lower) ==
    SelectSeq(non_financial_keywords, LAMBDA keyword : Contains(keyword, content_lower))

\* variant of CategoryMatches: a keyword listed in another category as well
\* is not counted
CategoryMatches_UniqueKeywords(category, content_lower) ==
    Len(SelectSeq(financial_keywords[category],
                  LAMBDA keyword :
                      /\ Contains(keyword, content_lower)
                      /\ \A i \in 1..Len(Categories) :
                            Categories[i] # category =>
                                keyword \notin Range(financial_keywords[Categories[i]])))

\* category_matches of one pass of the category loop
CategoryMatches(category, content_lower) ==
    Len(SelectSeq(financial_keywords[category],
                  LAMBDA keyword : Contains(keyword, content_lower)))

\* category_matches of every pass of the category loop, in dict order
CategoryCounts(content_lower) ==
    [ i \in 1..Len(Categories) |-> CategoryMatches(Categories[i], content_lower) ]

RECURSIVE Sum(_)
Sum(counts) == IF counts = <<>> THEN 0 ELSE Head(counts) + Sum(Tail(counts))

\* variant of FinancialScore: a category adds 1, however many of its keywords match
FinancialScore_OnePerCategory(counts) == Len(SelectSeq(counts, LAMBDA n : n > 0))

\* financial_score after the category loop: every match of every category adds 1
FinancialScore(counts) == Sum(counts)

\* detected_categories after the category loop
DetectedCategories(counts) ==
    LET matched == SelectSeq([i \in 1..Len(counts) |-> i], LAMBDA i : counts[i] > 0)
    IN  [ j \in 1..Len(matched) |-> Categories[matched[j]] ]

\* variant of DetectedType: a score below the threshold is not given the
\* label of its categories
DetectedType_BelowThreshold(detected_categories, financial_score) ==
    IF detected_categories # <<>> /\ financial_score >= min_financial_score
    THEN Join(detected_categories, ", ")
    ELSE IF financial_score > 0 THEN "potentially_financial"
    ELSE "non_financial"

\* the if / elif / else that labels a scored text
DetectedType(detected_categories, financial_score) ==
    IF detected_categories # <<>> THEN Join(detected_categories, ", ")
    ELSE IF financial_score > 0 THEN "potentially_financial"
    ELSE "non_financial"

\* the number of places of s at which sub occurs
Occurrences(sub, s) ==
    Cardinality({ i \in 0..(Len(s) - Len(sub)) : SubSeq(s, i + 1, i + Len(sub)) = sub })

RECURSIVE SumOccurrences(_, _)
SumOccurrences(startup_words, content_lower) ==
    IF startup_words = <<>> THEN 0
    ELSE (IF Len(Head(startup_words)) > min_word_length
          THEN Occurrences(Head(startup_words), content_lower) ELSE 0)
         + SumOccurrences(Tail(startup_words), content_lower)

\* variant of MatchingWords: a word adds 1 for each of its occurrences
MatchingWords_Occurrences(startup_words, content_lower) ==
    SumOccurrences(startup_words, content_lower)

\* startup_score of the word loop: the words longer than 2 found in the text
MatchingWords(startup_words, content_lower) ==
    Len(SelectSeq(startup_words,
                  LAMBDA word : Len(word) > min_word_length /\ Contains(word, content_lower)))

\* analysis['startup_score'] of a scored text
StartupScore(startup_name, content_lower) ==
    IF startup_name = "" THEN Zero
    ELSE LET startup_words == Split(startup_name)
             total_words == Len(startup_words)
         IN  IF total_words > 0
             THEN [num |-> MatchingWords(startup_words, content_lower), den |-> total_words]
             ELSE Zero

\* variant of StartupConsistent: any matching word makes the file consistent
StartupConsistent_AnyMatch(startup_name, content_lower) ==
    /\ startup_name # ""
    /\ Len(Split(startup_name)) > 0
    /\ StartupScore(startup_name, content_lower).num > 0

\* analysis['startup_consistent'] of a scored text
StartupConsistent(startup_name, content_lower) ==
    /\ startup_name # ""
    /\ Len(Split(startup_name)) > 0
    /\ RatioLeq(min_startup_consistency_score, StartupScore(startup_name, content_lower))

\* the analysis dict as first assigned
DefaultAnalysis(filename) ==
    [ filename |-> filename,
      is_financial |-> FALSE,
      detected_type |-> "unknown",
      financial_score |-> 0,
      startup_consistent |-> FALSE,
      startup_score |-> Zero,
      red_flags |-> <<>> ]

\* variant of IsEmptyContent: only a missing text counts as empty
IsEmptyContent_OnlyNone(content) == FALSE

\* `if not content`
IsEmptyContent(content) == content = ""

\* variant of ShortCircuits: the early return needs more than 3 red flags
ShortCircuits_AboveThree(red_flags) == Len(red_flags) > red_flag_limit + 1

\* the early return of a text with more than 2 red flags
ShortCircuits(red_flags) == Len(red_flags) > red_flag_limit

\* variant of IsFinancial: any keyword match makes the text financial
IsFinancial_AnyMatch(financial_score) == financial_score > 0

\* analysis['is_financial'] of a scored text
IsFinancial(financial_score) == financial_score >= min_financial_score

_analyze_file_content(filename, content, startup_name) ==
    IF IsEmptyContent(content)
    THEN [DefaultAnalysis(filename) EXCEPT !.detected_type = "empty_or_unreadable"]
    ELSE
      LET content_lower == Lower(content)
          red_flags == RedFlags(content_lower)
      IN  IF ShortCircuits(red_flags)
          THEN [DefaultAnalysis(filename) EXCEPT
                    !.red_flags = red_flags,
                    !.detected_type = "non_financial_personal"]
          ELSE
            LET counts == CategoryCounts(content_lower)
                financial_score == FinancialScore(counts)
            IN  [ filename |-> filename,
                  is_financial |-> IsFinancial(financial_score),
                  detected_type |->
                      DetectedType(DetectedCategories(counts), financial_score),
                  financial_score |-> financial_score,
                  startup_consistent |-> StartupConsistent(startup_name, content_lower),
                  startup_score |-> StartupScore(startup_name, content_lower),
                  red_flags |-> red_flags ]

(***************************************************************************)
(* An upload: file.filename and file.file.  The stream is described by     *)
(* what its format's extraction branch makes of it: `text` is the text     *)
(* that branch obtains, `readable` whether the parsing library accepts     *)
(* the stream (decoding a .txt with errors='ignore' always succeeds).      *)
(***************************************************************************)
Upload(filename, text, readable) ==
    [filename |-> filename, file |-> [text |-> text, readable |-> readable]]

(***************************************************************************)
(* FileValidator._is_allowed_extension                                     *)
(***************************************************************************)
RECURSIVE PartsAcc(_, _, _)
PartsAcc(s, cur, acc) ==
    LET flush == IF cur = "" \/ cur = "." THEN acc ELSE Append(acc, cur)
    IN  IF s = "" THEN flush
        ELSE IF Head(s) = "/" THEN PartsAcc(Tail(s), "", flush)
        ELSE PartsAcc(Tail(s), cur \o Head(s), acc)

\* PurePosixPath(filename).name: the last component, '' when there is none
PathName(filename) ==
    LET parts == PartsAcc(filename, "", <<>>)
    IN  IF parts = <<>> THEN "" ELSE parts[Len(parts)]

\* str.rfind('.') + 1: the position of the last dot, 0 when there is none
LastDot(name) ==
    IF CharIn(".", name)
    THEN CHOOSE i \in 1..Len(name) :
            /\ Char(name, i) = "."
            /\ \A j \in (i + 1)..Len(name) : Char(name, j) # "."
    ELSE 0

\* PurePath.suffix: from the last dot of the name, unless that dot is the
\* first or the last character of the name
PathSuffix(filename) ==
    LET name == PathName(filename)
        i == LastDot(name)
    IN  IF 1 < i /\ i < Len(name) THEN SubSeq(name, i, Len(name)) ELSE ""

_is_allowed_extension(filename) ==
    IF filename = "" THEN FALSE
    ELSE Lower(PathSuffix(filename)) \in allowed_extensions

(***************************************************************************)
(* FileValidator._extract_file_content and the four _extract_*_content     *)
(***************************************************************************)
\* _extract_pdf_content, _extract_docx_content, _extract_excel_content,
\* _extract_csv_content: the library's text, '' when the library raises
ParsedContent(file_obj) == IF file_obj.readable THEN file_obj.text ELSE ""

_extract_file_content(file) ==
    LET filename == Lower(file.filename)
    IN  IF EndsWith(filename, ".pdf") THEN ParsedContent(file.file)
        ELSE IF EndsWith(filename, ".docx") \/ EndsWith(filename, ".doc")
             THEN ParsedContent(file.file)
        ELSE IF EndsWith(filename, ".xlsx") \/ EndsWith(filename, ".xls")
             THEN ParsedContent(file.file)
        ELSE IF EndsWith(filename, ".csv") THEN ParsedContent(file.file)
        ELSE IF EndsWith(filename, ".txt") THEN file.file.text
        ELSE ""

(***************************************************************************)
(* FileValidator._check_cross_file_consistency                             *)
(***************************************************************************)
MultiCompanyWarning == [kind |-> "multiple_companies"]

\* list(set(references)) of one file: re.findall(rf'\b\w*{keyword}\w*\b') over
\* all the company keywords finds the whole words that contain a keyword
References(content) ==
    { w \in Words(Lower(content)) :
        \E i \in 1..Len(company_keywords) : Contains(company_keywords[i], w) }

\* unique_references
UniqueReferences(file_contents) ==
    UNION { References(file_contents[i].content) : i \in 1..Len(file_contents) }

_check_cross_file_consistency(file_contents, startup_name) ==
    IF Len(file_contents) < min_files_for_cross_check
    THEN [consistent |-> TRUE, warnings |-> <<>>]
    ELSE [consistent |-> TRUE,
          warnings |->
              IF Cardinality(UniqueReferences(file_contents)) > max_unique_references
              THEN << MultiCompanyWarning >>
              ELSE <<>>]

(***************************************************************************)
(* FileValidator.validate_files                                            *)
(*                                                                         *)
(* An error or warning string is kept as a record of the values its        *)
(* f-string formats.                                                       *)
(***************************************************************************)
UnsupportedFormatError(filename) ==
    [kind |-> "unsupported_format", filename |-> filename]

NotFinancialError(filename, detected_type) ==
    [kind |-> "not_financial", filename |-> filename, detected_type |-> detected_type]

StartupMismatchWarning(filename, startup_name, startup_score) ==
    [kind |-> "startup_mismatch", filename |-> filename,
     startup_name |-> startup_name, startup_score |-> startup_score]

\* the results dict as first assigned
EmptyResults ==
    [is_valid |-> TRUE, errors |-> <<>>, warnings |-> <<>>, file_analyses |-> <<>>]

RECURSIVE ExtensionGate(_)
\* the errors of the extension loop, one pass per file
ExtensionGate(files) ==
    IF files = <<>> THEN <<>>
    ELSE (IF _is_allowed_extension(Head(files).filename) THEN <<>>
          ELSE << UnsupportedFormatError(Head(files).filename) >>)
         \o ExtensionGate(Tail(files))

ExtractionWarning(filename) ==
    [kind |-> "extraction_failed", filename |-> filename]

\* whether a call of _extract_file_content ends in an exception: a stream the
\* library rejects is caught in the helper of its format, which returns "",
\* and the try of _extract_file_content catches every other Exception
ExtractionRaises(file) == FALSE

\* file_contents after the extraction loop: the content extracted, or '' in
\* the except branch
ExtractAll(files) ==
    [ i \in 1..Len(files) |->
        LET content == IF ExtractionRaises(files[i]) THEN ""
                       ELSE _extract_file_content(files[i])
        IN  [filename |-> files[i].filename, content |-> content, size |-> Len(content)] ]

\* results after the extraction loop: the warnings of its except branch
ExtractionResults(files) ==
    [EmptyResults EXCEPT !.warnings =
        LET failed == SelectSeq(files, LAMBDA file : ExtractionRaises(file))
        IN  [k \in 1..Len(failed) |-> ExtractionWarning(failed[k].filename)]]

\* file.file.seek(offset): the position of the stream afterwards
Seek(position, offset) == offset

\* the position after the extraction branch of the format has read the
\* stream file.file from `position` on: its end
ReadToEnd(file, position) ==
    IF position > Len(file.file.text) THEN position ELSE Len(file.file.text)

\* variant of PositionAfterExtraction: the stream is not rewound after the read
PositionAfterExtraction_NoRewind(file, position) == ReadToEnd(file, Seek(position, 0))

\* the position of file.file when _extract_file_content returns:
\* seek(0), the read of the format, seek(0)
PositionAfterExtraction(file, position) == Seek(ReadToEnd(file, Seek(position, 0)), 0)

\* the positions of the streams of a batch when validate_files returns: a
\* batch the extension gate rejects is not read
StreamPositions(files, positions) ==
    IF ExtensionGate(files) # <<>> THEN positions
    ELSE [ i \in 1..Len(files) |-> PositionAfterExtraction(files[i], positions[i]) ]

\* variant of WarnsStartupMismatch: no warning for a score of 0
WarnsStartupMismatch_PartialOnly(analysis) ==
    /\ ~analysis.startup_consistent
    /\ ~RatioLeq(min_startup_consistency_score, analysis.startup_score)
    /\ analysis.startup_score.num > 0

\* variant of WarnsStartupMismatch: a file that is rejected is not warned about
WarnsStartupMismatch_AcceptedOnly(analysis) ==
    /\ analysis.is_financial
    /\ ~analysis.startup_consistent
    /\ ~RatioLeq(min_startup_consistency_score, analysis.startup_score)

\* the condition under which the consistency warning of one file is appended
WarnsStartupMismatch(analysis) ==
    /\ ~analysis.startup_consistent
    /\ ~RatioLeq(min_startup_consistency_score, analysis.startup_score)

\* variant of ValidateOne: a consistency warning also clears is_valid
ValidateOne_MismatchBlocks(results, file_data, startup_name, startup_name_normalized) ==
    LET analysis == _analyze_file_content(file_data.filename, file_data.content,
                                          startup_name_normalized)
    IN  [ is_valid |->
              results.is_valid /\ analysis.is_financial /\ ~WarnsStartupMismatch(analysis),
          errors |->
              IF ~analysis.is_financial
              THEN Append(results.errors,
                          NotFinancialError(file_data.filename, analysis.detected_type))
              ELSE results.errors,
          warnings |->
              IF WarnsStartupMismatch(analysis)
              THEN Append(results.warnings,
                          StartupMismatchWarning(file_data.filename, startup_name,
                                                 analysis.startup_score))
              ELSE results.warnings,
          file_analyses |-> Append(results.file_analyses, analysis) ]

\* variant of ValidateOne: the mismatch of the name is reported among the errors
ValidateOne_MismatchIsError(results, file_data, startup_name, startup_name_normalized) ==
    LET analysis == _analyze_file_content(file_data.filename, file_data.content,
                                          startup_name_normalized)
    IN  [ is_valid |-> results.is_valid /\ analysis.is_financial,
          errors |->
              IF ~analysis.is_financial \/ WarnsStartupMismatch(analysis)
              THEN Append(results.errors,
                          NotFinancialError(file_data.filename, analysis.detected_type))
              ELSE results.errors,
          warnings |-> results.warnings,
          file_analyses |-> Append(results.file_analyses, analysis) ]

\* one pass of the loop over file_contents
ValidateOne(results, file_data, startup_name, startup_name_normalized) ==
    LET analysis == _analyze_file_content(file_data.filename, file_data.content,
                                          startup_name_normalized)
    IN  [ is_valid |-> results.is_valid /\ analysis.is_financial,
          errors |->
              IF ~analysis.is_financial
              THEN Append(results.errors,
                          NotFinancialError(file_data.filename, analysis.detected_type))
              ELSE results.errors,
          warnings |->
              IF WarnsStartupMismatch(analysis)
              THEN Append(results.warnings,
                          StartupMismatchWarning(file_data.filename, startup_name,
                                                 analysis.startup_score))
              ELSE results.warnings,
          file_analyses |-> Append(results.file_analyses, analysis) ]

RECURSIVE ValidateEach_StopsAtRejection(_, _, _, _)
\* variant of ValidateEach: the loop is left at the first rejected file
ValidateEach_StopsAtRejection(results, file_contents, startup_name, startup_name_normalized) ==
    IF file_contents = <<>> \/ ~results.is_valid THEN results
    ELSE ValidateEach_StopsAtRejection(
            ValidateOne(results, Head(file_contents), startup_name, startup_name_normalized),
            Tail(file_contents), startup_name, startup_name_normalized)

RECURSIVE ValidateEach(_, _, _, _)
\* the loop over file_contents
ValidateEach(results, file_contents, startup_name, startup_name_normalized) ==
    IF file_contents = <<>> THEN results
    ELSE ValidateEach(
            ValidateOne(results, Head(file_contents), startup_name, startup_name_normalized),
            Tail(file_contents), startup_name, startup_name_normalized)

\* the cross-file step: the warnings are taken over only when the check says
\* the batch is not consistent
CrossFileStep(results, consistency_check) ==
    IF ~consistency_check.consistent
    THEN [results EXCEPT !.warnings = @ \o consistency_check.warnings]
    ELSE results

\* variant of validate_files: the extension errors are recorded and the run goes on
validate_files_NoEarlyReturn(files, startup_name) ==
    LET gate_errors == ExtensionGate(files)
        gated == [ExtractionResults(files) EXCEPT !.is_valid = (gate_errors = <<>>),
                                                  !.errors = gate_errors]
        file_contents == ExtractAll(files)
        startup_name_normalized == _normalize_text(startup_name)
        analysed == ValidateEach(gated, file_contents, startup_name, startup_name_normalized)
        consistency_check ==
            _check_cross_file_consistency(file_contents, startup_name_normalized)
    IN  [ results |-> CrossFileStep(analysed, consistency_check),
          extracted |-> [i \in 1..Len(files) |-> files[i].filename] ]

\* the returned dict, and the files _extract_file_content was called on
validate_files(files, startup_name) ==
    LET gate_errors == ExtensionGate(files)
    IN  IF gate_errors # <<>>
        THEN [ results |-> [EmptyResults EXCEPT !.is_valid = FALSE, !.errors = gate_errors],
               extracted |-> <<>> ]
        ELSE
          LET file_contents == ExtractAll(files)
              startup_name_normalized == _normalize_text(startup_name)
              analysed == ValidateEach(ExtractionResults(files), file_contents,
                                       startup_name, startup_name_normalized)
              consistency_check ==
                  _check_cross_file_consistency(file_contents, startup_name_normalized)
          IN  [ results |-> CrossFileStep(analysed, consistency_check),
                extracted |-> [i \in 1..Len(files) |-> files[i].filename] ]

(***************************************************************************)
(* validate_files when a statement of its try block raises.  A fault names  *)
(* the step that raises: "gate" (the extension check of file `index`, e.g.  *)
(* an object without a filename), "extract" (the call of                    *)
(* _extract_file_content on file `index`, e.g. a filename that is no str),  *)
(* "normalize" (_normalize_text, e.g. a name that is no str), "analyze"     *)
(* (_analyze_file_content on file `index`) or "cross" (the cross-file       *)
(* check); "none" is a run in which nothing raises.                         *)
(***************************************************************************)
NoFault == [step |-> "none", index |-> 0]

FaultsOf(files) ==
    {NoFault}
    \cup [step : {"gate", "extract", "analyze"}, index : 1..Len(files)]
    \cup [step : {"normalize", "cross"}, index : {0}]

ValidationError == [kind |-> "validation_error"]

\* variant of Caught: the handler records the error and leaves is_valid
Caught_KeepsValid(results) ==
    [results EXCEPT !.errors = Append(@, ValidationError)]

\* the outer except branch, on the results dict as it is when the exception
\* arrives
Caught(results) ==
    [results EXCEPT !.is_valid = FALSE, !.errors = Append(@, ValidationError)]

\* the returned dict, the files _extract_file_content was called on, and
\* whether an exception leaves validate_files
validate_files_raising(files, startup_name, fault) ==
    LET n == Len(files)
        names == [i \in 1..n |-> files[i].filename]
        checked == IF fault.step = "gate" THEN fault.index - 1 ELSE n
        gate_errors == ExtensionGate(SubSeq(files, 1, checked))
        gated == [EmptyResults EXCEPT !.is_valid = (gate_errors = <<>>),
                                      !.errors = gate_errors]
        raises(i) == ExtractionRaises(files[i])
                        \/ (fault.step = "extract" /\ fault.index = i)
        file_contents ==
            [ i \in 1..n |->
                IF raises(i) THEN [filename |-> files[i].filename, content |-> "", size |-> 0]
                ELSE ExtractAll(files)[i] ]
        failed == SelectSeq([i \in 1..n |-> i], raises)
        extraction ==
            [EmptyResults EXCEPT !.warnings =
                [k \in 1..Len(failed) |-> ExtractionWarning(files[failed[k]].filename)]]
        startup_name_normalized == _normalize_text(startup_name)
        analysed_files == IF fault.step = "analyze" THEN fault.index - 1 ELSE n
        analysed == ValidateEach(extraction, SubSeq(file_contents, 1, analysed_files),
                                 startup_name, startup_name_normalized)
        consistency_check ==
            _check_cross_file_consistency(file_contents, startup_name_normalized)
        returned == validate_files(files, startup_name)
    IN  IF fault = NoFault
        THEN [ results |-> returned.results, extracted |-> returned.extracted,
               raised |-> FALSE ]
        ELSE IF fault.step = "gate"
        THEN [results |-> Caught(gated), extracted |-> <<>>, raised |-> FALSE]
        ELSE IF gate_errors # <<>>
        THEN [results |-> gated, extracted |-> <<>>, raised |-> FALSE]
        ELSE IF fault.step = "normalize"
        THEN [results |-> Caught(extraction), extracted |-> names, raised |-> FALSE]
        ELSE IF fault.step \in {"analyze", "cross"}
        THEN [results |-> Caught(analysed), extracted |-> names, raised |-> FALSE]
        ELSE [ results |-> CrossFileStep(analysed, consistency_check),
               extracted |-> names, raised |-> FALSE ]

(***************************************************************************)
(* Inputs                                                                  *)
(***************************************************************************)
\* the longest batch of Spec, in files
MaxBatch == 2

FileNames == { "fin.pdf", "notes.TXT", "deck.pptx", ".txt" }

Streams ==
    { [text |-> "TechStart AI Inc: assets, Net Income", readable |-> TRUE],
      [text |-> "Mega LLC business firm venture startup Ltd: Equity, loss", readable |-> TRUE],
      [text |-> "TechStart family vacation diary, cash budget plan", readable |-> TRUE],
      [text |-> "Revenue", readable |-> FALSE],
      [text |-> "", readable |-> TRUE] }

\* every stream under one name that passes the extension gate; under the
\* other names a financial text and the empty stream
Uploads ==
    { upload \in [filename : FileNames, file : Streams] :
        \/ upload.filename = "fin.pdf"
        \/ upload.file.text \in {"", "TechStart AI Inc: assets, Net Income"} }

\* the callers pass at least one file
Batches == UNION { [1..n -> Uploads] : n \in 1..MaxBatch }

StartupNames == { "TechStart", "TechStart AI", "??" }

\* SpecFaults: batches of readable, rejected and unsupported files
FaultUploads ==
    { Upload("fin.pdf", "TechStart AI Inc: assets, Net Income", TRUE),
      Upload("fin.pdf", "Revenue", FALSE),
      Upload("deck.pptx", "", TRUE) }

FaultBatches == UNION { [1..n -> FaultUploads] : n \in 1..MaxBatch }

FaultNames == { "TechStart" }

\* the most threads of SpecCalls inside validate_files at once
MaxCalls == 2

CallBatches ==
    { << Upload("fin.pdf", "TechStart AI Inc: assets, Net Income", TRUE) >>,
      << Upload("fin.pdf", "TechStart AI Inc: assets, Net Income", TRUE),
         Upload("notes.TXT", "Family vacation diary, cash budget plan", TRUE) >>,
      << Upload("fin.pdf", "Revenue", FALSE),
         Upload("fin.pdf", "Mega LLC business firm venture startup Ltd: Equity, loss", TRUE) >>,
      << Upload("deck.pptx", "", TRUE) >> }

CallNames == { "TechStart" }

\* the longest text of SpecAnalyze, in fragments
MaxFragments == 3

Fragments ==
    { "Net Income", "Revenue", "Shareholder Equity", "personal notes",
      "family vacation", "Diary", "TechStart Inc" }

AnalyzedNames == { "Tech-Start Inc.", "TechStart AI", "Q2", "" }

AnalyzedFilename == "upload.txt"

(***************************************************************************)
(* State                                                                   *)
(***************************************************************************)
VARIABLES
    pc,             \* "idle", "called" (validate_files entered) or "returned"
    files,          \* the batch passed to validate_files
    startup_name,   \* the claimed name passed to validate_files
    fault,          \* the step of this call that raises, NoFault when none does
    results,        \* the dict validate_files returned
    extracted,      \* the filenames _extract_file_content was called with, in order
    raised,         \* whether the call ended in an exception instead of a return
    a_startup_name, \* SpecAnalyze: the normalised name passed to _analyze_file_content
    a_content,      \* SpecAnalyze: the text passed to _analyze_file_content
    a_fragments,    \* SpecAnalyze: the number of fragments a_content is made of
    analysis,       \* SpecAnalyze: the dict _analyze_file_content returned
    calls,          \* SpecCalls: the concurrent calls of validate_files, by thread
    startups,       \* SpecRoutes: the committed rows of table startups, by id
    startup_files,  \* SpecRoutes: the committed rows of table startup_files
    disk,           \* SpecRoutes: the paths of the files in the upload directory
    requests        \* SpecRoutes: the requests received, in order of arrival

validator_vars == << pc, files, startup_name, fault, results, extracted, raised >>
analyze_vars == << a_startup_name, a_content, a_fragments, analysis >>
route_vars == << startups, startup_files, disk, requests >>

vars == << validator_vars, analyze_vars, calls, route_vars >>

ValidatorIdle ==
    /\ pc = "idle"
    /\ files = <<>>
    /\ startup_name = ""
    /\ fault = NoFault
    /\ results = EmptyResults
    /\ extracted = <<>>
    /\ raised = FALSE

AnalyzeIdle ==
    /\ a_startup_name = ""
    /\ a_content = ""
    /\ a_fragments = 0
    /\ analysis = _analyze_file_content(AnalyzedFilename, "", "")

\* no thread has called validate_files
CallsIdle == calls = <<>>

\* the tables and the upload directory as created, no request received
RoutesIdle ==
    /\ startups = <<>>
    /\ startup_files = {}
    /\ disk = {}
    /\ requests = <<>>

(***************************************************************************)
(* Spec: calls of validate_files                                           *)
(***************************************************************************)
Init == ValidatorIdle /\ AnalyzeIdle /\ CallsIdle /\ RoutesIdle

\* a caller has a batch and a claimed name to validate
Submit ==
    /\ pc = "idle"
    /\ files' \in Batches
    /\ startup_name' \in StartupNames
    /\ pc' = "called"
    /\ UNCHANGED << fault, results, extracted, raised, analyze_vars, calls, route_vars >>

\* file_validator.validate_files(files, startup_name), from call to return
ValidateFiles ==
    /\ pc = "called"
    /\ LET out == validate_files_raising(files, startup_name, fault)
       IN  /\ results' = out.results
           /\ extracted' = out.extracted
           /\ raised' = out.raised
    /\ pc' = "returned"
    /\ UNCHANGED << files, startup_name, fault, analyze_vars, calls, route_vars >>

\* the caller is done with the verdict
Return ==
    /\ pc = "returned"
    /\ pc' = "idle"
    /\ files' = <<>>
    /\ startup_name' = ""
    /\ fault' = NoFault
    /\ results' = EmptyResults
    /\ extracted' = <<>>
    /\ raised' = FALSE
    /\ UNCHANGED << analyze_vars, calls, route_vars >>

Next == Submit \/ ValidateFiles \/ Return

Spec == Init /\ [][Next]_vars

(***************************************************************************)
(* SpecFaults: calls of validate_files in which one step may raise         *)
(***************************************************************************)
\* a caller has a batch and a name, and one statement of the run will raise
SubmitFaulty ==
    /\ pc = "idle"
    /\ files' \in FaultBatches
    /\ startup_name' \in FaultNames
    /\ fault' \in FaultsOf(files')
    /\ pc' = "called"
    /\ UNCHANGED << results, extracted, raised, analyze_vars, calls, route_vars >>

NextFaults == SubmitFaulty \/ ValidateFiles \/ Return

SpecFaults == Init /\ [][NextFaults]_vars

(***************************************************************************)
(* SpecAnalyze: _analyze_file_content on texts of up to MaxFragments       *)
(* fragments, each call on the previous text with one more fragment        *)
(***************************************************************************)
InitAnalyze ==
    /\ ValidatorIdle
    /\ CallsIdle
    /\ RoutesIdle
    /\ a_startup_name \in { _normalize_text(n) : n \in AnalyzedNames }
    /\ a_content = ""
    /\ a_fragments = 0
    /\ analysis = _analyze_file_content(AnalyzedFilename, "", a_startup_name)

AnalyzeLonger ==
    /\ a_fragments < MaxFragments
    /\ \E fragment \in Fragments :
          /\ a_content' = IF a_content = "" THEN fragment ELSE a_content \o " " \o fragment
          /\ analysis' = _analyze_file_content(AnalyzedFilename, a_content', a_startup_name)
    /\ a_fragments' = a_fragments + 1
    /\ UNCHANGED << a_startup_name, validator_vars, calls, route_vars >>

NextAnalyze == AnalyzeLonger

SpecAnalyze == InitAnalyze /\ [][NextAnalyze]_vars

(***************************************************************************)
(* SpecCalls: up to MaxCalls threads run validate_files on the one          *)
(* file_validator instance, each on its own batch, one step of one thread   *)
(* at a time.  A step is the extension loop, the extraction loop, one pass  *)
(* of the analysis loop, or the cross-file check with the return.           *)
(***************************************************************************)
\* variant of ResultsOwner: one results dict kept on the instance
ResultsOwner_Shared(thread) == 1

\* the call whose frame holds the results dict a thread works on: its own,
\* `results` being a local assigned at the start of each call
ResultsOwner(thread) == thread

\* thread number Len(calls) + 1 calls validate_files: a new frame, and a new
\* results dict
CallValidate ==
    /\ Len(calls) < MaxCalls
    /\ \E batch \in CallBatches, name \in CallNames :
          LET thread == Len(calls) + 1
              frame == [pc |-> "gate", files |-> batch, startup_name |-> name,
                        results |-> EmptyResults, file_contents |-> <<>>, i |-> 1,
                        verdict |-> EmptyResults]
          IN  calls' = [Append(calls, frame) EXCEPT ![ResultsOwner(thread)].results =
                                                        EmptyResults]
    /\ UNCHANGED << validator_vars, analyze_vars, route_vars >>

\* the extension loop of a thread, and the return that follows a rejection
CallGate ==
    \E thread \in DOMAIN calls :
        /\ calls[thread].pc = "gate"
        /\ LET owner == ResultsOwner(thread)
               gate_errors == ExtensionGate(calls[thread].files)
               after == [calls[owner].results EXCEPT !.is_valid = @ /\ gate_errors = <<>>,
                                                     !.errors = @ \o gate_errors]
           IN  calls' = IF after.is_valid
                        THEN [calls EXCEPT ![owner].results = after, ![thread].pc = "extract"]
                        ELSE [calls EXCEPT ![owner].results = after, ![thread].pc = "returned",
                                           ![thread].verdict = after]
        /\ UNCHANGED << validator_vars, analyze_vars, route_vars >>

\* the extraction loop of a thread
CallExtract ==
    \E thread \in DOMAIN calls :
        /\ calls[thread].pc = "extract"
        /\ LET owner == ResultsOwner(thread)
               after == [calls[owner].results EXCEPT
                            !.warnings = @ \o ExtractionResults(calls[thread].files).warnings]
           IN  calls' = [calls EXCEPT ![owner].results = after,
                                      ![thread].file_contents = ExtractAll(calls[thread].files),
                                      ![thread].pc = "analyze"]
        /\ UNCHANGED << validator_vars, analyze_vars, route_vars >>

\* one pass of the analysis loop of a thread
CallAnalyze ==
    \E thread \in DOMAIN calls :
        /\ calls[thread].pc = "analyze"
        /\ LET owner == ResultsOwner(thread)
               frame == calls[thread]
               after == ValidateOne(calls[owner].results, frame.file_contents[frame.i],
                                    frame.startup_name, _normalize_text(frame.startup_name))
           IN  calls' = [calls EXCEPT
                            ![owner].results = after,
                            ![thread].i = @ + 1,
                            ![thread].pc = IF frame.i = Len(frame.files) THEN "cross" ELSE @]
        /\ UNCHANGED << validator_vars, analyze_vars, route_vars >>

\* the cross-file check of a thread, and its return
CallCross ==
    \E thread \in DOMAIN calls :
        /\ calls[thread].pc = "cross"
        /\ LET owner == ResultsOwner(thread)
               frame == calls[thread]
               consistency_check ==
                   _check_cross_file_consistency(frame.file_contents,
                                                 _normalize_text(frame.startup_name))
               after == CrossFileStep(calls[owner].results, consistency_check)
           IN  calls' = [calls EXCEPT ![owner].results = after, ![thread].pc = "returned",
                                      ![thread].verdict = after]
        /\ UNCHANGED << validator_vars, analyze_vars, route_vars >>

NextCalls == CallValidate \/ CallGate \/ CallExtract \/ CallAnalyze \/ CallCross

SpecCalls == Init /\ [][NextCalls]_vars

(***************************************************************************)
(* SpecRoutes: the handlers of startup_routes.py on one event loop.  A      *)
(* handler runs without interruption up to an await that suspends it (the   *)
(* writes of the uploaded files), so submit_startup and                     *)
(* add_files_to_startup take two steps each, with the steps of other        *)
(* requests in between, and delete_startup_file takes one.  Each request    *)
(* has its own database session: it reads the committed rows, and its own   *)
(* rows are seen by the others once it has committed.                       *)
(***************************************************************************)
\* the most requests SpecRoutes receives
MaxRequests == 3

\* the literal of `len(files) > 3` and `total_files > 3`
max_files_per_startup == 3

\* variant of last_file_count: only a startup without files is protected
last_file_count_Zero == 1 - 1

\* the literal of `len(startup.files) <= 1`
last_file_count == 1

RouteNames == { "TechStart" }

\* batches of accepted files, and one of a personal text
RouteBatches ==
    { << Upload("fin.pdf", "TechStart Inc: assets, Net Income", TRUE) >>,
      << Upload("fin.pdf", "TechStart Inc: assets, Net Income", TRUE),
         Upload("plan.csv", "TechStart: Revenue, profit, loss", TRUE) >>,
      << Upload("notes.txt", "Family vacation diary, cash budget plan", TRUE) >>,
      [k \in 1..4 |-> Upload("fin.pdf", "TechStart Inc: assets, Net Income", TRUE)] }

\* validation_result before validate_files is called
NoVerdict == [EmptyResults EXCEPT !.is_valid = FALSE]

\* raise HTTPException(status_code, detail)
HTTPException(status_code, detail) == [status_code |-> status_code, detail |-> detail]

\* error_details of a rejected batch
ValidationFailed(validation_result) ==
    HTTPException(422, [message |-> "File validation failed",
                        errors |-> validation_result.errors,
                        warnings |-> validation_result.warnings,
                        file_analyses |-> validation_result.file_analyses])

\* what leaves submit_startup when its try block raises: every exception,
\* its own HTTPExceptions included, is caught by `except Exception`
RaisedInSubmit(exception) ==
    HTTPException(500, [message |-> "Error processing submission",
                        error |-> exception.status_code])

\* what leaves add_files_to_startup and delete_startup_file when they raise
\* an HTTPException: `except HTTPException: raise`
Reraised(exception) == exception

\* return JSONResponse(status_code=200, ...)
JSONResponse == [status_code |-> 200, detail |-> [message |-> "success"]]

NoResponse == [status_code |-> 0, detail |-> [message |-> "no response yet"]]

\* variant of Rejects: the verdict is not looked at
Rejects_Never(validation_result) == FALSE

\* `if not validation_result['is_valid']`
Rejects(validation_result) == ~validation_result.is_valid

\* str.lower() of both sides and a substring test: ILIKE '%name%'
ILikeContains(column, name) == Contains(Lower(Strip(name)), Lower(column))

\* ILIKE 'name'
ILikeEquals(column, name) == Lower(column) = Lower(Strip(name))

\* startup.files
FilesOf(startup_id) == { row \in startup_files : row.startup_id = startup_id }

\* the id the database gives the next row of startup_files
NextFileId ==
    IF startup_files = {} THEN 1
    ELSE 1 + CHOOSE id \in { row.id : row \in startup_files } :
                 \A row \in startup_files : row.id <= id

\* content = await file.read(): what is left of the stream from its position
ReadUpload(file, position) == SubSeq(file.text, position + 1, Len(file.text))

\* the rows and the paths request `request` makes of its files for a startup
NewRows(request, startup_id, batch) ==
    { [id |-> NextFileId + k - 1, startup_id |-> startup_id,
       file_path |-> << request, k >>,
       file_size |-> Len(ReadUpload(batch[k].file, requests[request].positions[k]))] :
        k \in 1..Len(batch) }

\* structured_llm.invoke was not called
NotInvoked == "not invoked"

\* a request as received: the handler, its arguments, the uploads at their
\* start, and no answer yet
Request(handler, name, batch, file_id) ==
    [handler |-> handler, startup_name |-> name, files |-> batch, file_id |-> file_id,
     positions |-> [k \in 1..Len(batch) |-> 0],
     pc |-> "running", startup_id |-> 0, validation_result |-> NoVerdict,
     file_paths |-> <<>>, llm |-> NotInvoked,
     response |-> NoResponse]

Answered(request, response) == [request EXCEPT !.pc = "done", !.response = response]

\* submit_startup(startup_name, files), from the arrival of the request to
\* its first await or to the exception that ends it
submit_startup_of(name, batch) ==
    /\ LET request == Request("submit_startup", name, batch, 0)
           validation_result == validate_files(batch, name).results
           validated == [request EXCEPT !.validation_result = validation_result,
                                        !.positions = StreamPositions(batch, @)]
           existing_startup ==
               { id \in DOMAIN startups : ILikeEquals(startups[id].startup_name, name) }
           raise(exception, r) ==
               /\ requests' = Append(requests, Answered(r, RaisedInSubmit(exception)))
               /\ UNCHANGED startups
       IN  IF Len(batch) > max_files_per_startup
           THEN raise(HTTPException(400, [message |-> "Maximum 3 files allowed"]), request)
           ELSE IF Len(batch) = 0
           THEN raise(HTTPException(400, [message |-> "At least 1 file is required"]),
                      request)
           ELSE IF Rejects(validation_result)
           THEN raise(ValidationFailed(validation_result), validated)
           ELSE IF existing_startup # {}
           THEN raise(HTTPException(409, [message |-> "already exists"]), validated)
           ELSE /\ startups' = Append(startups, [startup_name |-> Strip(name),
                                                 request |-> Len(requests) + 1])
                /\ requests' = Append(requests,
                                      [validated EXCEPT !.pc = "saving",
                                                        !.startup_id = Len(startups) + 1])
    /\ UNCHANGED << startup_files, disk, validator_vars, analyze_vars, calls >>

\* a request of submit_startup is received
submit_startup ==
    /\ Len(requests) < MaxRequests
    /\ \E name \in RouteNames, batch \in RouteBatches : submit_startup_of(name, batch)

\* the rest of a handler that saves files: the files are written, their rows
\* added and committed, the response returned
SaveFiles(request) ==
    /\ requests[request].pc = "saving"
    /\ LET rows == NewRows(request, requests[request].startup_id, requests[request].files)
       IN  /\ startup_files' = startup_files \cup rows
           /\ disk' = disk \cup { row.file_path : row \in rows }
    /\ requests' = [requests EXCEPT ![request] = Answered(@, JSONResponse)]
    /\ UNCHANGED << startups, validator_vars, analyze_vars, calls >>

submit_startup_save ==
    \E request \in DOMAIN requests :
        /\ requests[request].handler = "submit_startup"
        /\ SaveFiles(request)

\* add_files_to_startup, from the arrival of the request to its first await
\* or to the exception that ends it; .first() takes any of the matching rows
add_files_to_startup ==
    /\ Len(requests) < MaxRequests
    /\ \E name \in RouteNames, batch \in RouteBatches :
          LET request == Request("add_files_to_startup", name, batch, 0)
              matching ==
                  { id \in DOMAIN startups : ILikeContains(startups[id].startup_name, name) }
              raise(exception, r) ==
                  requests' = Append(requests, Answered(r, Reraised(exception)))
          IN  IF matching = {}
              THEN raise(HTTPException(404, [message |-> "not found"]), request)
              ELSE \E startup_id \in matching :
                     LET current_file_count == Cardinality(FilesOf(startup_id))
                         new_file_count == Len(batch)
                         validation_result ==
                             validate_files(batch, startups[startup_id].startup_name).results
                         validated == [request EXCEPT !.validation_result = validation_result,
                                                      !.positions = StreamPositions(batch, @),
                                                      !.startup_id = startup_id]
                     IN  IF current_file_count + new_file_count > max_files_per_startup
                         THEN raise(HTTPException(400, [message |-> "Maximum 3 files allowed"]),
                                    request)
                         ELSE IF new_file_count = 0
                         THEN raise(HTTPException(400,
                                        [message |-> "At least 1 file is required"]), request)
                         ELSE IF Rejects(validation_result)
                         THEN raise(ValidationFailed(validation_result), validated)
                         ELSE requests' = Append(requests, [validated EXCEPT !.pc = "saving"])
    /\ UNCHANGED << startups, startup_files, disk, validator_vars, analyze_vars, calls >>

add_files_to_startup_save ==
    \E request \in DOMAIN requests :
        /\ requests[request].handler = "add_files_to_startup"
        /\ SaveFiles(request)

\* delete_startup_file, from the arrival of the request to its response: the
\* handler awaits nothing
delete_startup_file ==
    /\ Len(requests) < MaxRequests
    /\ \E name \in RouteNames, file_id \in { row.id : row \in startup_files } \cup {NextFileId} :
          LET request == Request("delete_startup_file", name, <<>>, file_id)
              matching ==
                  { id \in DOMAIN startups : ILikeContains(startups[id].startup_name, name) }
              raise(exception) ==
                  /\ requests' = Append(requests, Answered(request, Reraised(exception)))
                  /\ UNCHANGED << startup_files, disk >>
          IN  IF matching = {}
              THEN raise(HTTPException(404, [message |-> "Startup not found"]))
              ELSE \E startup_id \in matching :
                     LET file == { row \in FilesOf(startup_id) : row.id = file_id }
                     IN  IF file = {}
                         THEN raise(HTTPException(404, [message |-> "File not found"]))
                         ELSE IF Cardinality(FilesOf(startup_id)) <= last_file_count
                         THEN raise(HTTPException(400,
                                        [message |-> "Cannot delete the last file"]))
                         ELSE /\ startup_files' = startup_files \ file
                              /\ disk' = disk \ { row.file_path : row \in file }
                              /\ requests' = Append(requests,
                                     Answered([request EXCEPT !.startup_id = startup_id],
                                              JSONResponse))
    /\ UNCHANGED << startups, validator_vars, analyze_vars, calls >>

NextRoutes ==
    \/ submit_startup
    \/ add_files_to_startup
    \/ delete_startup_file
    \/ submit_startup_save
    \/ add_files_to_startup_save

SpecRoutes == Init /\ [][NextRoutes]_vars

(***************************************************************************)
(* SpecSubmissions: submissions under names that differ in case and in     *)
(* surrounding blanks, a save step that may fail, and analyze_startup of    *)
(* analysis_routes.py on what was stored.  The model of the language model  *)
(* is the outcome of structured_llm.invoke: it raises, it returns None, it  *)
(* returns a response, or it returns a response whose KPI values are not    *)
(* of the types the result schema takes.                                    *)
(***************************************************************************)
SubmittedNames == { "TechStart", " techstart " }

\* accepted batches: a PDF, and a CSV with a text file
SubmittedBatches ==
    { << Upload("fin.PDF", "TechStart Inc: assets, Net Income", TRUE) >>,
      << Upload("plan.csv", "TechStart: Revenue, profit, loss", TRUE),
         Upload("notes.txt", "TechStart budget, forecast, targets", TRUE) >> }

\* the names analyze_startup is asked for
AnalyzedStartups == { "tech" }

LLMOutcomes == { "raises", "none", "response", "malformed" }

\* an exception that is no HTTPException, raised by a write or by a commit
OSError == [status_code |-> 0, detail |-> [message |-> "OSError"]]

\* a request of submit_startup is received, under one of the submitted names
submit_startup_named ==
    /\ Len(requests) < MaxRequests
    /\ \E name \in SubmittedNames, batch \in SubmittedBatches : submit_startup_of(name, batch)

\* the rest of submit_startup when the save of file number `failing` raises:
\* the files before it are on disk, db.rollback() drops the rows added since
\* the commit of the startup row, and the handler answers 500
submit_startup_save_fails ==
    \E request \in DOMAIN requests :
        /\ requests[request].handler = "submit_startup"
        /\ requests[request].pc = "saving"
        /\ \E failing \in 1..Len(requests[request].files) :
              disk' = disk \cup { << request, k >> : k \in 1..(failing - 1) }
        /\ requests' = [requests EXCEPT ![request] = Answered(@, RaisedInSubmit(OSError))]
        /\ UNCHANGED << startups, startup_files, validator_vars, analyze_vars, calls >>

\* ILIKE '%name%' of analyze_startup: the name is not stripped
ILikeAnywhere(column, name) == Contains(Lower(name), Lower(column))

\* file_extension of the saved name: os.path.splitext(file.filename)[1]
SavedExtension(row) ==
    PathSuffix(requests[row.file_path[1]].files[row.file_path[2]].filename)

\* startup.files as the query returns them, by id
RowsOf(startup_id) ==
    LET rows == FilesOf(startup_id)
    IN  CHOOSE seq \in [1..Cardinality(rows) -> rows] :
            \A i, j \in 1..Cardinality(rows) : i < j => seq[i].id < seq[j].id

\* file_paths of analyze_startup: the path of each row, with what
\* Path.exists() says of it
FilePaths(startup_id) ==
    LET rows == RowsOf(startup_id)
    IN  [ i \in 1..Len(rows) |->
            [ path |-> "storage/submissions/file" \o SavedExtension(rows[i]),
              exists |-> rows[i].file_path \in disk ] ]

\* the media parts build_multimodal_messages appends to the text part
PdfParts(file_paths) ==
    SelectSeq(file_paths, LAMBDA fp : EndsWith(Lower(fp.path), ".pdf") /\ fp.exists)

\* a value of a KPI dict of the response, by its Python type
KpiValue(type) == [type |-> type]

\* what the language model answers when it answers
LLMAnalysisResponse(revenue_model) ==
    [ financial_kpis |-> [revenue_model |-> revenue_model],
      recommendations |-> << "Raise a seed round" >>,
      risk_assessment |-> "Low",
      investment_score |-> 8, market_opportunity_score |-> 7, team_score |-> 9,
      product_score |-> 6, financial_health_score |-> 7 ]

\* None
None == [none |-> TRUE]

\* the fallback response of the function
FallbackResponse ==
    [ financial_kpis |-> [revenue_model |-> KpiValue("str")],
      recommendations |-> << "Schedule detailed KPI extraction session",
                             "Provide additional financial metrics",
                             "Consider supplemental data sources" >>,
      risk_assessment |-> "Medium",
      investment_score |-> 5, market_opportunity_score |-> 5, team_score |-> 5,
      product_score |-> 5, financial_health_score |-> 5 ]

\* the AnalysisResult of the outer except branch
FailureResult(name) ==
    [ startup_name |-> name,
      recommendations |-> << "Manual review required" >>,
      risk_assessment |-> "High",
      investment_score |-> 1, market_opportunity_score |-> 1, team_score |-> 1,
      product_score |-> 1, financial_health_score |-> 1 ]

\* the AnalysisResult returned at the end of the try block
AnalysisResult(name, llm_resp) ==
    [ startup_name |-> name,
      recommendations |-> llm_resp.recommendations,
      risk_assessment |-> llm_resp.risk_assessment,
      investment_score |-> llm_resp.investment_score,
      market_opportunity_score |-> llm_resp.market_opportunity_score,
      team_score |-> llm_resp.team_score,
      product_score |-> llm_resp.product_score,
      financial_health_score |-> llm_resp.financial_health_score ]

\* llm_resp after the inner try: the response, or None when invoke raised or
\* returned None
structured_llm_invoke(outcome) ==
    IF outcome \in {"raises", "none"} THEN None
    ELSE IF outcome = "malformed" THEN LLMAnalysisResponse(KpiValue("dict"))
    ELSE LLMAnalysisResponse(KpiValue("str"))

\* variant of NeedsFallback: the fallback is never made
NeedsFallback_Never(llm_resp) == FALSE

\* `if llm_resp is None`
NeedsFallback(llm_resp) == llm_resp = None

\* the statements that build the KPI objects raise: llm_resp is None and has
\* no attribute, or revenue_model is not the str FinancialKPIs takes
KpiObjectsRaise(llm_resp) ==
    IF llm_resp = None THEN TRUE
    ELSE llm_resp.financial_kpis.revenue_model # KpiValue("str")

\* variant of HasPdfParts: the text part alone is sent as well
HasPdfParts_Always(content_parts) == TRUE

\* `len(content_parts) <= 1` is false: a media part follows the text part
HasPdfParts(content_parts) == Len(content_parts) > 1

\* analyze_startup_with_langchain: the result returned, and what
\* structured_llm.invoke did if it was called
analyze_startup_with_langchain(name, file_paths, outcome) ==
    LET content_parts == << "text" >> \o PdfParts(file_paths)
        invoked == structured_llm_invoke(outcome)
        llm_resp == IF NeedsFallback(invoked) THEN FallbackResponse ELSE invoked
    IN  IF file_paths = <<>> \/ ~HasPdfParts(content_parts)
        THEN [result |-> FailureResult(name), llm |-> NotInvoked]
        ELSE IF KpiObjectsRaise(llm_resp)
        THEN [result |-> FailureResult(name), llm |-> outcome]
        ELSE [result |-> AnalysisResult(name, llm_resp), llm |-> outcome]

\* analyze_startup, from the arrival of the request to its response: the
\* handler awaits nothing
analyze_startup ==
    /\ Len(requests) < MaxRequests
    /\ \E name \in AnalyzedStartups, outcome \in LLMOutcomes :
          LET request == Request("analyze_startup", name, <<>>, 0)
              matching ==
                  { id \in DOMAIN startups : ILikeAnywhere(startups[id].startup_name, name) }
          IN  IF matching = {}
              THEN requests' = Append(requests,
                       Answered(request, Reraised(HTTPException(404,
                                                      [message |-> "not found"]))))
              ELSE \E startup_id \in matching :
                     LET file_paths == FilePaths(startup_id)
                         analysis_result ==
                             analyze_startup_with_langchain(startups[startup_id].startup_name,
                                                            file_paths, outcome)
                         called == [request EXCEPT !.startup_id = startup_id,
                                                   !.file_paths = file_paths]
                     IN  IF file_paths = <<>>
                         THEN requests' = Append(requests,
                                  Answered(called, Reraised(HTTPException(400,
                                                       [message |-> "No documents found"]))))
                         ELSE requests' = Append(requests,
                                  Answered([called EXCEPT !.llm = analysis_result.llm],
                                           [status_code |-> 200,
                                            detail |-> analysis_result.result]))
    /\ UNCHANGED << startups, startup_files, disk, validator_vars, analyze_vars, calls >>

NextSubmissions ==
    \/ submit_startup_named
    \/ submit_startup_save
    \/ submit_startup_save_fails
    \/ analyze_startup

SpecSubmissions == Init /\ [][NextSubmissions]_vars

(***************************************************************************)
(* Properties.  What a property says of a text or a file name is stated    *)
(* from the text and the name themselves, with the numbers of the claim.   *)
(***************************************************************************)
Returned == pc = "returned"

FileIndices == 1..Len(files)

\* the extension of the file name is outside the allowed set, in any case
Offending(i) == Lower(PathSuffix(files[i].filename)) \notin allowed_extensions

PassedGate == \A i \in FileIndices : ~Offending(i)

AnalysisOf(i) == results.file_analyses[i]

\* the red-flag terms that occur in a text
RedFlagTerms(text) ==
    LET lower == Lower(text)
    IN  { k \in Range(non_financial_keywords) : Contains(k, lower) }

\* the keywords of one category that occur in a text
KeywordsOf(category, text) ==
    LET lower == Lower(text)
    IN  { k \in Range(financial_keywords[category]) : Contains(k, lower) }

\* for each category, the number of its keywords that occur in a text
KeywordCounts(text) ==
    LET lower == Lower(text)
    IN  [ c \in Range(Categories) |->
            Cardinality({ k \in Range(financial_keywords[c]) : Contains(k, lower) }) ]

RECURSIVE SetSum(_, _)
SetSum(S, f) ==
    IF S = {} THEN 0
    ELSE LET x == CHOOSE y \in S : TRUE IN f[x] + SetSum(S \ {x}, f)

\* keyword matches of a text, over all the categories
KeywordMatches(text) ==
    SetSum(Range(Categories), [c \in Range(Categories) |-> Cardinality(KeywordsOf(c, text))])

\* the text reaches the scoring steps of _analyze_file_content
Scored(text) == text # "" /\ Cardinality(RedFlagTerms(text)) <= 2

\* C1: the verdict is invalid exactly when some file has an unsupported
\* extension or some FileAnalysis is not financial; warnings never decide it
C1_ValidIff ==
    Returned =>
        ( ~results.is_valid <=>
            \/ \E i \in FileIndices : Offending(i)
            \/ \E i \in 1..Len(results.file_analyses) : ~AnalysisOf(i).is_financial )

\* a valid verdict that carries a consistency warning
C1_Witness ==
    /\ Returned
    /\ results.is_valid
    /\ \E w \in Range(results.warnings) : w.kind = "startup_mismatch"

\* C2: in every FileAnalysis, is_financial holds exactly when the financial
\* score is at least 3 and at most 2 red-flag terms matched
C2_IsFinancialIff ==
    analysis.is_financial <=>
        (analysis.financial_score >= 3 /\ Len(analysis.red_flags) <= 2)

\* a text with keyword matches but fewer than 3 of them, not financial
C2_Witness ==
    /\ a_fragments > 0
    /\ analysis.financial_score \in {1, 2}
    /\ Len(analysis.red_flags) <= 2
    /\ ~analysis.is_financial

\* the errors the extension gate owes: one per offending file, in file order
OffendingErrors ==
    LET offending == SelectSeq([i \in FileIndices |-> i], LAMBDA i : Offending(i))
    IN  [ k \in 1..Len(offending) |->
            [kind |-> "unsupported_format", filename |-> files[offending[k]].filename] ]

\* C3: a batch with an offending extension is rejected with one error per
\* offending file, no analyses, no warnings, and no file extracted
C3_ExtensionGate ==
    (Returned /\ \E i \in FileIndices : Offending(i)) =>
        /\ ~results.is_valid
        /\ results.errors = OffendingErrors
        /\ results.file_analyses = <<>>
        /\ results.warnings = <<>>
        /\ extracted = <<>>

\* a rejected batch that also holds an allowed file, its extension in capitals
C3_Witness ==
    /\ Returned
    /\ \E i, j \in FileIndices :
          /\ Offending(i)
          /\ ~Offending(j)
          /\ EndsWith(files[j].filename, ".TXT")
          /\ files[j].file.text # ""
    /\ Len(results.errors) = 1

\* C4: a text with 3 or more distinct red-flag terms is not financial, is
\* labelled non_financial_personal and has score 0, whatever its keywords
C4_RedFlagsOverride ==
    Cardinality(RedFlagTerms(a_content)) >= 3 =>
        /\ ~analysis.is_financial
        /\ analysis.detected_type = "non_financial_personal"
        /\ analysis.financial_score = 0

\* 3 red-flag terms in a text with at least 3 keyword matches
C4_Witness ==
    /\ Cardinality(RedFlagTerms(a_content)) = 3
    /\ KeywordMatches(a_content) >= 3
    /\ analysis.detected_type = "non_financial_personal"

\* C5: a non-empty text with at least 3 distinct keywords of one category and
\* at most 2 red-flag terms is financial
C5_ThreeOfOneCategory ==
    ( /\ a_content # ""
      /\ \E counts \in {KeywordCounts(a_content)} :
            \E c \in Range(Categories) : counts[c] >= 3
      /\ Cardinality(RedFlagTerms(a_content)) <= 2 )
    => analysis.is_financial

\* exactly 3 keywords, all of one category, next to 2 red-flag terms
C5_Witness ==
    /\ \E c \in Range(Categories) : Cardinality(KeywordsOf(c, a_content)) = 3
    /\ KeywordMatches(a_content) = 3
    /\ Cardinality(RedFlagTerms(a_content)) = 2
    /\ analysis.is_financial

\* the text the extraction branch of file i yields: nothing when the library
\* rejects the stream of a parsed format, else the text of the stream
YieldsNothing(i) ==
    \/ files[i].file.text = ""
    \/ ~files[i].file.readable /\ ~EndsWith(Lower(files[i].filename), ".txt")

\* C6: a file whose extracted content is empty is analysed as
\* empty_or_unreadable, not financial, score 0, and its batch is invalid
C6_EmptyContent ==
    Returned =>
        \A i \in FileIndices :
            YieldsNothing(i) =>
                /\ ~results.is_valid
                /\ PassedGate =>
                      /\ Len(results.file_analyses) = Len(files)
                      /\ AnalysisOf(i).detected_type = "empty_or_unreadable"
                      /\ ~AnalysisOf(i).is_financial
                      /\ AnalysisOf(i).financial_score = 0

\* an unreadable PDF and an empty text file, both analysed
C6_Witness ==
    /\ Returned
    /\ PassedGate
    /\ \E i, j \in FileIndices :
          /\ ~files[i].file.readable /\ files[i].file.text # ""
          /\ EndsWith(files[i].filename, ".pdf")
          /\ files[j].file.readable /\ files[j].file.text = ""
          /\ AnalysisOf(i).detected_type = "empty_or_unreadable"
          /\ AnalysisOf(j).detected_type = "empty_or_unreadable"

\* the whitespace-delimited tokens of a name that are longer than 2 characters
LongTokens(name) == SelectSeq(Split(name), LAMBDA w : Len(w) > 2)

\* those of them that occur in a text
FoundTokens(name, text) ==
    LET lower == Lower(text)
    IN  SelectSeq(LongTokens(name), LAMBDA w : Contains(w, lower))

\* matches / qualifying tokens, 0 when no token qualifies
QualifyingRatio(name, text) ==
    IF LongTokens(name) = <<>> THEN Zero
    ELSE [num |-> Len(FoundTokens(name, text)), den |-> Len(LongTokens(name))]

RatioEq(a, b) == a.num * b.den = b.num * a.den

\* C7: startup_score is the number of tokens longer than 2 found in the text
\* over the number of tokens longer than 2, and 0 when there is no such token
\* (stated of the texts that reach the scorer)
C7_QualifyingTokensOnly ==
    Scored(a_content) =>
        RatioEq(analysis.startup_score, QualifyingRatio(a_startup_name, a_content))

\* the tokens of the name, as a set, found in a text
FoundSet(name, text) == Range(FoundTokens(name, text))

ScoreBounded ==
    /\ RatioLeq(Zero, analysis.startup_score)
    /\ RatioLeq(analysis.startup_score, [num |-> 1, den |-> 1])

ScoreZeroWithoutLongToken ==
    LongTokens(a_startup_name) = <<>> => analysis.startup_score.num = 0

\* one more call, same name, on a text in which at least the same tokens occur
MoreTokensFound ==
    /\ a_startup_name' = a_startup_name
    /\ FoundSet(a_startup_name, a_content) \subseteq FoundSet(a_startup_name, a_content')

\* C8 as written: startup_score is in [0,1], is 0 for a name without a token
\* longer than 2, and never decreases when more tokens of the name are found
C8_MonotoneAnyText ==
    /\ [](ScoreBounded /\ ScoreZeroWithoutLongToken)
    /\ [][MoreTokensFound => RatioLeq(analysis.startup_score, analysis'.startup_score)]_vars

\* C8: startup_score is in [0,1], is 0 for a name without a token longer than
\* 2, and never decreases when more tokens of the name are found in a text
\* that reaches the scorer (not empty, at most 2 red-flag terms)
C8_MonotoneScoredText ==
    /\ [](ScoreBounded /\ ScoreZeroWithoutLongToken)
    /\ [][(MoreTokensFound /\ Scored(a_content'))
            => RatioLeq(analysis.startup_score, analysis'.startup_score)]_vars

\* a name of two long tokens, one of them found after a text with none found:
\* a score strictly between 0 and 1
C8_Witness ==
    /\ Len(LongTokens(a_startup_name)) = 2
    /\ Len(FoundTokens(a_startup_name, a_content)) = 1
    /\ a_fragments > 1
    /\ Scored(a_content)
    /\ analysis.startup_score = [num |-> 1, den |-> 2]

\* the consistency warnings that name a file
MismatchWarningsNaming(filename) ==
    SelectSeq(results.warnings,
              LAMBDA w : w.kind = "startup_mismatch" /\ w.filename = filename)

\* the files of that name whose analysis is not startup-consistent
InconsistentNamed(filename) ==
    { i \in FileIndices : files[i].filename = filename /\ ~AnalysisOf(i).startup_consistent }

\* C9: a file that is not startup-consistent gets exactly one warning naming
\* it and no error; errors are owed to non-financial files alone, and the
\* verdict is valid when every file is financial
C9_MismatchWarnsOnly ==
    (Returned /\ PassedGate) =>
        /\ \A i \in FileIndices :
              Len(MismatchWarningsNaming(files[i].filename))
                  = Cardinality(InconsistentNamed(files[i].filename))
        /\ Len(results.errors)
              = Cardinality({ i \in FileIndices : ~AnalysisOf(i).is_financial })
        /\ \A e \in Range(results.errors) : e.kind = "not_financial"
        /\ (\A i \in FileIndices : AnalysisOf(i).is_financial) => results.is_valid

\* a financial file that mentions no token of the name: score 0.0, one warning,
\* no error, valid verdict
C9_Witness ==
    /\ Returned
    /\ PassedGate
    /\ Len(files) = 1
    /\ AnalysisOf(1).is_financial
    /\ ~AnalysisOf(1).startup_consistent
    /\ AnalysisOf(1).startup_score = Zero
    /\ LongTokens(_normalize_text(startup_name)) # <<>>
    /\ Len(results.warnings) = 1
    /\ results.errors = <<>>
    /\ results.is_valid

\* the distinct words of the batch that contain a company marker
CompanyWords ==
    UNION { References(_extract_file_content(files[i])) : i \in FileIndices }

\* C10: a batch of 2 or more files with more than 5 distinct company-marker
\* matches carries the multi-company warning, and is valid when every file is
\* financial
C10_MultiCompanyWarning ==
    (Returned /\ PassedGate /\ Len(files) >= 2 /\ Cardinality(CompanyWords) > 5) =>
        /\ \E w \in Range(results.warnings) : w.kind = "multiple_companies"
        /\ (\A i \in FileIndices : AnalysisOf(i).is_financial) => results.is_valid

\* the result of the cross-file check on the contents extracted from the batch
CrossFileCheck ==
    _check_cross_file_consistency(ExtractAll(files), _normalize_text(startup_name))

\* C11: a batch of exactly 1 file has no multi-company warning, neither in the
\* result of the cross-file check nor in the verdict, whatever its content
C11_SingleFileNoCrossWarning ==
    (Returned /\ Len(files) = 1) =>
        /\ \A w \in Range(results.warnings) : w.kind # "multiple_companies"
        /\ PassedGate => CrossFileCheck.warnings = <<>>

\* one analysed file whose text alone holds more than 5 distinct
\* company-marker words
C11_Witness ==
    /\ Returned
    /\ PassedGate
    /\ Len(files) = 1
    /\ Cardinality(CompanyWords) > 5
    /\ Len(results.file_analyses) = 1

\* the library rejects the stream of file i, a file of a parsed format
ExtractionFails(i) ==
    /\ ~files[i].file.readable
    /\ ~EndsWith(Lower(files[i].filename), ".txt")

\* C12: a file whose extraction fails gets an extraction warning naming it in
\* the verdict and is analysed as empty content; the failure adds no error:
\* the errors are those of the non-financial files whose extraction succeeded,
\* and the batch is valid when there is none
C12_ExtractionFailureWarns ==
    (Returned /\ PassedGate) =>
        /\ \A i \in FileIndices :
              ExtractionFails(i) =>
                  /\ \E w \in Range(results.warnings) :
                        w.kind = "extraction_failed" /\ w.filename = files[i].filename
                  /\ AnalysisOf(i).detected_type = "empty_or_unreadable"
        /\ LET rejected == { i \in FileIndices :
                               ~ExtractionFails(i) /\ ~AnalysisOf(i).is_financial }
           IN  /\ Len(results.errors) = Cardinality(rejected)
               /\ rejected = {} => results.is_valid

\* the files whose analysis is not financial, in file order
NonFinancialIndices ==
    SelectSeq([i \in FileIndices |-> i], LAMBDA i : ~AnalysisOf(i).is_financial)

\* C14: for a batch that passes the extension gate, file_analyses holds one
\* entry per file in input order, and errors holds one entry per non-financial
\* file, naming the file and its detected type, in file order, and no other
C14_OnePerFileInOrder ==
    (Returned /\ PassedGate) =>
        /\ Len(results.file_analyses) = Len(files)
        /\ \A i \in FileIndices :
              /\ AnalysisOf(i).filename = files[i].filename
              /\ AnalysisOf(i).detected_type = "empty_or_unreadable" <=> YieldsNothing(i)
        /\ results.errors =
              [ k \in 1..Len(NonFinancialIndices) |->
                  [kind |-> "not_financial",
                   filename |-> files[NonFinancialIndices[k]].filename,
                   detected_type |-> AnalysisOf(NonFinancialIndices[k]).detected_type] ]

\* two files of different names and detected types, both rejected, the
\* second one a text with keywords
C14_Witness ==
    /\ Returned
    /\ PassedGate
    /\ Len(files) = 2
    /\ files[1].filename # files[2].filename
    /\ Len(results.errors) = 2
    /\ results.errors[1].detected_type = "empty_or_unreadable"
    /\ results.errors[2].detected_type \notin {"empty_or_unreadable", "non_financial"}

\* the text extraction obtains from file i
TextOf(i) == IF YieldsNothing(i) THEN "" ELSE files[i].file.text

\* C17: a single file with an allowed extension whose text has at least 3
\* keyword matches, at most 2 red-flag terms and the claimed name verbatim,
\* in any case, is accepted: valid, financial and startup-consistent
C17_VerbatimNameAccepted ==
    ( /\ Returned
      /\ Len(files) = 1
      /\ PassedGate
      /\ KeywordMatches(TextOf(1)) >= 3
      /\ Cardinality(RedFlagTerms(TextOf(1))) <= 2
      /\ Contains(Lower(startup_name), Lower(TextOf(1))) )
    => /\ results.is_valid
       /\ AnalysisOf(1).is_financial
       /\ AnalysisOf(1).startup_consistent

\* the generic entries of errors
ValidationErrors == SelectSeq(results.errors, LAMBDA e : e.kind = "validation_error")

\* the verdict is a dict of the four fields, and no exception left the call
WellFormedVerdict ==
    /\ ~raised
    /\ DOMAIN results = {"is_valid", "errors", "warnings", "file_analyses"}

\* the run got as far as the step that raises
FaultReached == fault # NoFault /\ (fault.step = "gate" \/ PassedGate)

\* the verdict of a run cut short by the outer handler
CaughtVerdict ==
    /\ ~results.is_valid
    /\ Len(ValidationErrors) = 1
    /\ results.errors[Len(results.errors)] = ValidationError

\* C13 as written: validate_files always returns a verdict of four fields, and
\* an exception at any step of the run gives is_valid = false and exactly one
\* generic error, appended to errors
C13_AnyStepCaught ==
    Returned =>
        /\ WellFormedVerdict
        /\ FaultReached => CaughtVerdict

\* C13: validate_files always returns a verdict of four fields; an exception
\* at any step other than a call of _extract_file_content gives is_valid =
\* false and exactly one generic error, appended to errors; an exception of a
\* call of _extract_file_content gives a warning naming the file, an empty
\* content for it and no generic error
C13_CaughtOutsideExtraction ==
    Returned =>
        /\ WellFormedVerdict
        /\ (FaultReached /\ fault.step # "extract") => CaughtVerdict
        /\ (FaultReached /\ fault.step = "extract") =>
              /\ ValidationErrors = <<>>
              /\ ExtractionWarning(files[fault.index].filename) \in Range(results.warnings)
              /\ AnalysisOf(fault.index).detected_type = "empty_or_unreadable"

\* the analysis of the second of two files raises after the first was accepted
C13_Witness ==
    /\ Returned
    /\ fault = [step |-> "analyze", index |-> 2]
    /\ Len(results.file_analyses) = 1
    /\ AnalysisOf(1).is_financial
    /\ results.errors = << ValidationError >>
    /\ ~results.is_valid

\* C18: under any interleaving of the calls of validate_files on the shared
\* instance, each call returns the verdict it returns when run alone
C18_SameVerdictAsAlone ==
    \A thread \in DOMAIN calls :
        calls[thread].pc = "returned" =>
            calls[thread].verdict
                = validate_files(calls[thread].files, calls[thread].startup_name).results

\* the second thread has returned its verdict on another batch while the
\* first, called before it, is between two passes of its analysis loop
C18_Witness ==
    /\ Len(calls) = 2
    /\ calls[1].pc = "analyze" /\ calls[1].i = 2
    /\ calls[2].pc = "returned" /\ calls[2].files # calls[1].files
    /\ Len(calls[2].verdict.file_analyses) = 2

\* the requests, by order of arrival, that called validate_files and got a
\* verdict with is_valid = false
RejectedRequests ==
    { r \in DOMAIN requests :
        /\ requests[r].handler \in {"submit_startup", "add_files_to_startup"}
        /\ requests[r].validation_result # NoVerdict
        /\ ~requests[r].validation_result.is_valid }

\* C15: a request of submit_startup or add_files_to_startup whose verdict has
\* is_valid = false is answered with status 422 and a detail that carries the
\* errors, warnings and file_analyses of the verdict
C15_InvalidAnswered422 ==
    \A r \in RejectedRequests :
        /\ requests[r].pc = "done"
        /\ requests[r].response.status_code = 422
        /\ requests[r].response.detail.errors = requests[r].validation_result.errors
        /\ requests[r].response.detail.warnings = requests[r].validation_result.warnings
        /\ requests[r].response.detail.file_analyses
              = requests[r].validation_result.file_analyses

\* the requests that made a row of startups, a row of startup_files or a file
\* on disk that exists
Creators ==
    { startups[id].request : id \in DOMAIN startups }
    \cup { row.file_path[1] : row \in startup_files }
    \cup { path[1] : path \in disk }

\* C16: every startup row, file row and file on disk was made by a request
\* whose batch validate_files had accepted before; a request whose verdict has
\* is_valid = false has made none and is over
C16_ValidatedBeforePersisted ==
    /\ \A r \in Creators : requests[r].validation_result.is_valid
    /\ \A r \in RejectedRequests : requests[r].pc = "done"
    /\ \A row \in startup_files :
          /\ row.startup_id \in DOMAIN startups
          /\ requests[row.file_path[1]].pc = "done"

\* a submission was rejected and made nothing, after which an accepted one
\* made a startup with its file rows
C16_Witness ==
    /\ Len(requests) >= 2
    /\ 1 \in RejectedRequests
    /\ requests[1].handler = "submit_startup"
    /\ requests[2].pc = "done"
    /\ requests[2].response.status_code = 200
    /\ Len(startups) = 1
    /\ Cardinality(FilesOf(1)) = 2
    /\ Creators = {2}

\* C19: no startup has more than 3 file rows, whatever requests were received
\* and however their steps interleaved
C19_AtMostThreeFiles ==
    \A id \in DOMAIN startups : Cardinality(FilesOf(id)) <= 3

\* the request just received is a delete of the one file a startup has
DeleteOfLastFile ==
    /\ Len(requests') = Len(requests) + 1
    /\ LET request == requests'[Len(requests')]
       IN  /\ request.handler = "delete_startup_file"
           /\ \E row \in startup_files :
                 /\ row.id = request.file_id
                 /\ FilesOf(row.startup_id) = {row}

\* C20: no step takes the last file of a startup: a startup that has a file
\* row keeps one, and a delete of the only file of a startup is answered with
\* status 400 and leaves the file rows and the files on disk as they are
C20_LastFileKept ==
    [][ /\ \A id \in DOMAIN startups : FilesOf(id) # {} => FilesOf(id)' # {}
        /\ DeleteOfLastFile =>
              /\ requests'[Len(requests')].response.status_code = 400
              /\ UNCHANGED << startup_files, disk >> ]_vars

\* a startup of 2 files after a delete that was carried out and one, of its
\* last file, that was refused
C20_Witness ==
    /\ Len(requests) = 3
    /\ requests[2].handler = "delete_startup_file"
    /\ requests[2].response.status_code = 200
    /\ requests[3].handler = "delete_startup_file"
    /\ requests[3].response.status_code = 400
    /\ Cardinality(FilesOf(1)) = 1
    /\ Cardinality(disk) = 1

\* the categories with a keyword that occurs, in taxonomy order
MatchedCategories(counts) == SelectSeq(Categories, LAMBDA category : counts[category] > 0)

\* some keyword that occurs in a text is listed in two categories
SharedKeywordMatched(text) ==
    \E c, d \in Range(Categories) : c # d /\ KeywordsOf(c, text) \cap KeywordsOf(d, text) # {}

\* C23: the financial score of a scored text is the sum, over the six
\* categories, of the number of the category's keywords that occur in the
\* lower-cased text, and the label of a text with matches lists exactly the
\* categories that have a match, in taxonomy order
C23_ScoreSumsCategories ==
    Scored(a_content) =>
        \A counts \in {KeywordCounts(a_content)} :
            /\ Len(Categories) = 6
            /\ analysis.financial_score = SetSum(Range(Categories), counts)
            /\ MatchedCategories(counts) # <<>> =>
                  analysis.detected_type = Join(MatchedCategories(counts), ", ")

\* 'equity' counted in balance_sheet and in cap_table: a text of 2 distinct
\* keywords with score 3
C23_Witness ==
    /\ Scored(a_content)
    /\ SharedKeywordMatched(a_content)
    /\ Cardinality(UNION { KeywordsOf(c, a_content) : c \in Range(Categories) }) = 2
    /\ analysis.financial_score = 3
    /\ analysis.detected_type = "balance_sheet, cap_table"

\* C24: a scored text is labelled non_financial exactly when its score is 0,
\* and with any score above 0, below the threshold of 3 too, it is labelled
\* with its matched categories joined by ', '; no analysis is labelled
\* potentially_financial or unknown
C24_DetectedTypeLabels ==
    /\ analysis.detected_type \notin {"potentially_financial", "unknown"}
    /\ Scored(a_content) =>
          /\ analysis.detected_type = "non_financial" <=> analysis.financial_score = 0
          /\ analysis.financial_score > 0 =>
                \A counts \in {KeywordCounts(a_content)} :
                    /\ analysis.financial_score < 3 => ~analysis.is_financial
                    /\ analysis.detected_type = Join(MatchedCategories(counts), ", ")

\* a rejected text of score 2 that carries the label of its category
C24_Witness ==
    /\ Scored(a_content)
    /\ analysis.financial_score = 2
    /\ ~analysis.is_financial
    /\ analysis.detected_type = "income_statement"

\* startup_score >= 0.7, the score a ratio of two counts
AtLeastSevenTenths(score) == 10 * score.num >= 7 * score.den

\* the consistency warnings of the verdict, in the order appended
MismatchWarnings == SelectSeq(results.warnings, LAMBDA w : w.kind = "startup_mismatch")

\* the indices of the analyses that are not startup-consistent, ascending
InconsistentIndices ==
    SelectSeq([i \in 1..Len(results.file_analyses) |-> i],
              LAMBDA i : ~AnalysisOf(i).startup_consistent)

\* C25: in every FileAnalysis of a verdict startup_consistent holds exactly
\* when startup_score is at least 0.7, and the consistency warnings are one
\* for each file that is not startup-consistent, in file order, and no other
C25_ConsistentIffScore ==
    Returned =>
        /\ \A i \in 1..Len(results.file_analyses) :
              AnalysisOf(i).startup_consistent
                  <=> AtLeastSevenTenths(AnalysisOf(i).startup_score)
        /\ Len(MismatchWarnings) = Len(InconsistentIndices)
        /\ \A k \in 1..Len(InconsistentIndices) :
              /\ MismatchWarnings[k].filename = files[InconsistentIndices[k]].filename
              /\ MismatchWarnings[k].startup_score
                     = AnalysisOf(InconsistentIndices[k]).startup_score

\* a scored file with half of the name's words, not consistent and warned,
\* next to an empty one with score 0.0
C25_Witness ==
    /\ Returned
    /\ Len(results.file_analyses) = 2
    /\ AnalysisOf(1).startup_score = [num |-> 1, den |-> 2]
    /\ ~AnalysisOf(1).startup_consistent
    /\ AnalysisOf(2).detected_type = "empty_or_unreadable"
    /\ Len(MismatchWarnings) = 2

\* what of a verdict decides on the batch: is_valid, the errors, and of each
\* analysis is_financial, detected_type, financial_score and red_flags
Decision(verdict) ==
    [ is_valid |-> verdict.is_valid,
      errors |-> verdict.errors,
      file_analyses |->
          [ i \in 1..Len(verdict.file_analyses) |->
              [ is_financial |-> verdict.file_analyses[i].is_financial,
                detected_type |-> verdict.file_analyses[i].detected_type,
                financial_score |-> verdict.file_analyses[i].financial_score,
                red_flags |-> verdict.file_analyses[i].red_flags ] ] ]

\* the verdict of a second run of validate_files on the same batch, under
\* another claimed name
SecondRun(other_name) == validate_files(files, other_name).results

\* C26: two runs of validate_files on one batch under any two claimed names
\* return the same is_valid, the same errors and, file by file, the same
\* is_financial, detected_type, financial_score and red_flags
C26_DecisionIgnoresName ==
    Returned =>
        \A other_name \in StartupNames \ {startup_name} :
            Decision(SecondRun(other_name)) = Decision(results)

\* an accepted batch whose warnings and scores do differ between two names
C26_Witness ==
    /\ Returned
    /\ results.is_valid
    /\ \E other_name \in StartupNames :
          /\ SecondRun(other_name).warnings # results.warnings
          /\ SecondRun(other_name).file_analyses[1].startup_score
                 # AnalysisOf(1).startup_score
          /\ SecondRun(other_name).file_analyses[1].startup_consistent
                 # AnalysisOf(1).startup_consistent

\* the analysis of file i returns early: nothing extracted, or 3 or more
\* red-flag terms in the text
ReturnsEarly(i) == TextOf(i) = "" \/ Cardinality(RedFlagTerms(TextOf(i))) > 2

\* the claimed name has words, and the text of file i holds each of them
HoldsWholeName(i) ==
    LET words == Split(_normalize_text(startup_name))
    IN  /\ words # <<>>
        /\ \A k \in 1..Len(words) : Len(words[k]) > 2
        /\ FoundTokens(_normalize_text(startup_name), TextOf(i)) = words

\* C27: a file whose analysis returns early has startup_score 0.0 and is not
\* startup-consistent, whatever of the claimed name its text holds, and the
\* verdict has a consistency warning with score 0.0 for it besides its error
C27_EarlyReturnWarned ==
    (Returned /\ PassedGate) =>
        \A i \in FileIndices :
            ReturnsEarly(i) =>
                /\ AnalysisOf(i).startup_score = Zero
                /\ ~AnalysisOf(i).startup_consistent
                /\ \E k \in 1..Len(InconsistentIndices) :
                      /\ InconsistentIndices[k] = i
                      /\ k <= Len(MismatchWarnings)
                      /\ MismatchWarnings[k].filename = files[i].filename
                      /\ MismatchWarnings[k].startup_score = Zero
                /\ \E e \in Range(results.errors) :
                      /\ e.kind = "not_financial"
                      /\ e.filename = files[i].filename
                      /\ e.detected_type = AnalysisOf(i).detected_type

\* a text of 3 red-flag terms that holds the whole claimed name, warned as
\* unrelated to it
C27_Witness ==
    /\ Returned
    /\ Len(files) = 1
    /\ PassedGate
    /\ Cardinality(RedFlagTerms(TextOf(1))) > 2
    /\ HoldsWholeName(1)
    /\ Len(results.warnings) = 1
    /\ Len(results.errors) = 1

\* the requests that called validate_files on a batch the extension gate let pass
ValidatedRequests ==
    { r \in DOMAIN requests :
        /\ requests[r].validation_result # NoVerdict
        /\ \A k \in 1..Len(requests[r].files) :
              Lower(PathSuffix(requests[r].files[k].filename)) \in allowed_extensions }

\* the upload a file row was made of
UploadOf(row) == requests[row.file_path[1]].files[row.file_path[2]]

\* C29: once validate_files has returned for a batch that passed the
\* extension gate, every stream of the batch is at position 0, and every file
\* row stores the whole size of its upload
C29_UploadsRewound ==
    /\ \A r \in ValidatedRequests :
          \A k \in 1..Len(requests[r].files) : requests[r].positions[k] = 0
    /\ \A row \in startup_files : row.file_size = Len(UploadOf(row).file.text)

\* the 2 files of a submission and the file added later stored at full size
C29_Witness ==
    /\ Len(requests) = 2
    /\ requests[1].handler = "submit_startup" /\ requests[1].pc = "done"
    /\ requests[2].handler = "add_files_to_startup" /\ requests[2].pc = "done"
    /\ Cardinality(startup_files) = 3
    /\ \A row \in startup_files : row.file_size > 0
    /\ ValidatedRequests = {1, 2}

\* two names are equal up to case and surrounding blanks
SameNameUpToCase(a, b) == Lower(Strip(a)) = Lower(Strip(b))

\* the submissions received when a startup of the same name, up to case, was
\* already stored
ConflictingSubmissions ==
    { r \in DOMAIN requests :
        /\ requests[r].handler = "submit_startup"
        /\ \E id \in DOMAIN startups :
              /\ startups[id].request < r
              /\ SameNameUpToCase(startups[id].startup_name, requests[r].startup_name) }

ConflictsAnswered409 ==
    \A r \in ConflictingSubmissions : requests[r].response.status_code = 409

ConflictsCreateNothing ==
    \A r \in ConflictingSubmissions :
        /\ requests[r].pc = "done"
        /\ \A id \in DOMAIN startups : startups[id].request # r
        /\ \A row \in startup_files : row.file_path[1] # r

NamesUniqueUpToCase ==
    \A i, j \in DOMAIN startups :
        i # j => ~SameNameUpToCase(startups[i].startup_name, startups[j].startup_name)

\* C21: a submission under the name of a stored startup, up to case and
\* surrounding blanks, is answered with status 409 and stores nothing, and no
\* two stored startups have the same name up to case
C21_ConflictRejected409 ==
    /\ ConflictsAnswered409
    /\ ConflictsCreateNothing
    /\ NamesUniqueUpToCase

\* the submissions that were answered with an error
FailedSubmissions ==
    { r \in DOMAIN requests :
        /\ requests[r].handler = "submit_startup"
        /\ requests[r].pc = "done"
        /\ requests[r].response.status_code # 200 }

\* C28: a submission that fails after validation leaves no startup row and
\* no file row of its own in the store
C28_FailedSubmissionLeavesNothing ==
    \A r \in FailedSubmissions :
        /\ \A id \in DOMAIN startups : startups[id].request # r
        /\ \A row \in startup_files : row.file_path[1] # r

\* the requests of analyze_startup that called analyze_startup_with_langchain
Analyses ==
    { r \in DOMAIN requests :
        /\ requests[r].handler = "analyze_startup"
        /\ requests[r].pc = "done"
        /\ requests[r].file_paths # <<>> }

\* the five scores of a result are all n
AllScores(result, n) ==
    /\ result.investment_score = n
    /\ result.market_opportunity_score = n
    /\ result.team_score = n
    /\ result.product_score = n
    /\ result.financial_health_score = n

\* C22: analyze_startup_with_langchain always returns a result: the canned
\* fallback, five scores of 5 and risk Medium, when the call of the language
\* model raised or returned None, and five scores of 1 and risk High on any
\* other failure inside the function
C22_DegradesGracefully ==
    \A r \in Analyses :
        /\ requests[r].response.status_code = 200
        /\ requests[r].llm \in {"raises", "none"} =>
              /\ AllScores(requests[r].response.detail, 5)
              /\ requests[r].response.detail.risk_assessment = "Medium"
        /\ requests[r].llm \in {"malformed", NotInvoked} =>
              /\ AllScores(requests[r].response.detail, 1)
              /\ requests[r].response.detail.risk_assessment = "High"

\* one analysis after a None of the language model, answered with the
\* fallback, and one after a response the result schema refuses
C22_Witness ==
    /\ Len(requests) = 3
    /\ Analyses = {2, 3}
    /\ requests[2].llm = "none"
    /\ AllScores(requests[2].response.detail, 5)
    /\ requests[3].llm = "malformed"
    /\ AllScores(requests[3].response.detail, 1)

\* a stored path that build_multimodal_messages makes a media part of
IsExistingPdf(fp) ==
    /\ Len(fp.path) >= 4
    /\ Lower(SubSeq(fp.path, Len(fp.path) - 3, Len(fp.path))) = ".pdf"
    /\ fp.exists

\* C30: when none of the stored files of the startup is an existing file
\* whose path ends in .pdf, the language model is not called and the result
\* is the failure result: scores 1, risk High, 'Manual review required'
C30_OnlyPdfReachesLLM ==
    \A r \in Analyses :
        /\ (\A k \in 1..Len(requests[r].file_paths) : ~IsExistingPdf(requests[r].file_paths[k]))
              => /\ requests[r].llm = NotInvoked
                 /\ AllScores(requests[r].response.detail, 1)
                 /\ requests[r].response.detail.risk_assessment = "High"
                 /\ requests[r].response.detail.recommendations
                        = << "Manual review required" >>
        /\ requests[r].llm # NotInvoked =>
              \E k \in 1..Len(requests[r].file_paths) :
                  IsExistingPdf(requests[r].file_paths[k])

\* an accepted submission of a CSV and a text file, stored and analysed
\* without the language model
C30_Witness ==
    /\ Len(requests) = 2
    /\ requests[1].handler = "submit_startup"
    /\ requests[1].response.status_code = 200
    /\ requests[1].validation_result.is_valid
    /\ Analyses = {2}
    /\ Len(requests[2].file_paths) = 2
    /\ requests[2].llm = NotInvoked
    /\ requests[2].response.status_code = 200
    /\ AllScores(requests[2].response.detail, 1)

====
